---- MODULE Spec2Model ----
(***************************************************************************)
(* Model of src/plugins/burst_buffer/lua/burst_buffer_lua.c: the burst     *)
(* buffer registry, its checkpoint codec (_save_bb_state /                 *)
(* _recover_bb_state), the three-name file rotation, the background agent  *)
(* (_bb_agent) and plugin start-up / shutdown (init / fini).               *)
(***************************************************************************)
EXTENDS Integers, Sequences, FiniteSets, TLC

(***************************************************************************)
(* Bounds of the model.                                                    *)
(***************************************************************************)
\* number of hash buckets of bb_ahash (the program uses a larger table)
BB_HASH_SIZE == 2
\* the clock (time(NULL)) runs from 1 to MaxTime
MaxTime == 2
\* how many write() calls of one _save_bb_state may return -1/EINTR
MaxEintr == 1
\* size of a short write(): write() returns either all it was given or this
WriteChunk == 9
\* how many registry operations the host thread performs
MaxHostOps == 1
\* how many times the agent's sleep may expire in one run of the process
MaxCycles == 2
\* how many times the process may be restarted
MaxRestarts == 1

(***************************************************************************)
(* Program constants.                                                      *)
(***************************************************************************)
NO_VAL16 == 65534
SLURM_21_08_PROTOCOL_VERSION == 9472
SLURM_PROTOCOL_VERSION == 9472
\* the version before the floor (20.11): one major step, 256, below it
SLURM_20_11_PROTOCOL_VERSION == SLURM_21_08_PROTOCOL_VERSION - 256

\* strings are sequences of bytes; <<>> is the absent (NULL) / empty string
NullStr == <<>>
\* (uint32_t) NO_VAL, kept symbolic
NO_VAL == "NO_VAL"

(***************************************************************************)
(* pack / unpack primitives (big-endian fixed width, length-prefixed       *)
(* strings).                                                               *)
(***************************************************************************)
pack16(v) == << (v \div 256) % 256, v % 256 >>

pack32(v) == << (v \div 16777216) % 256, (v \div 65536) % 256,
                (v \div 256) % 256, v % 256 >>

\* model values stay below 2^31: the high word is 0
pack64(v) == pack32(0) \o pack32(v)

pack_time(t) == pack64(t)

packstr(s) == pack32(Len(s)) \o s

\* the bytes data[off+1 .. off+n] (off is the 0-based buffer offset)
Bytes(data, off, n) == SubSeq(data, off + 1, off + n)

\* each unpack yields [ok, val, off]; ok = FALSE is the safe_unpack goto
unpack16(data, off) ==
    IF Len(data) - off < 2 THEN [ok |-> FALSE, val |-> 0, off |-> off]
    ELSE [ok |-> TRUE, val |-> data[off + 1] * 256 + data[off + 2], off |-> off + 2]

unpack32(data, off) ==
    IF Len(data) - off < 4 THEN [ok |-> FALSE, val |-> 0, off |-> off]
    ELSE [ok |-> TRUE,
          val |-> ((data[off + 1] * 256 + data[off + 2]) * 256 + data[off + 3]) * 256
                  + data[off + 4],
          off |-> off + 4]

unpack64(data, off) ==
    IF Len(data) - off < 8 THEN [ok |-> FALSE, val |-> 0, off |-> off]
    ELSE [ok |-> TRUE, val |-> unpack32(data, off + 4).val, off |-> off + 8]

unpack_time(data, off) == unpack64(data, off)

unpackstr(data, off) ==
    LET n == unpack32(data, off) IN
    IF ~n.ok THEN [ok |-> FALSE, val |-> NullStr, off |-> off]
    ELSE IF Len(data) - n.off < n.val THEN [ok |-> FALSE, val |-> NullStr, off |-> n.off]
    ELSE [ok |-> TRUE, val |-> Bytes(data, n.off, n.val), off |-> n.off + n.val]

(***************************************************************************)
(* The registry: bb_ahash[i] is the chain of bucket i, head first.         *)
(***************************************************************************)
Buckets == 0 .. (BB_HASH_SIZE - 1)

EmptyTable == [i \in Buckets |-> <<>>]

RECURSIVE SumBytes(_)
SumBytes(s) == IF s = <<>> THEN 0 ELSE Head(s) + SumBytes(Tail(s))

\* the bucket of a record: a hash over its name
bb_hash(name) == SumBytes(name) % BB_HASH_SIZE

\* a faulty FindRec: the record is never found
FindRecMisses(chain, name, user_id) == 0

\* position of the record keyed (name, user_id) in a chain, 0 when absent
FindRec(chain, name, user_id) ==
    LET hits == {k \in 1 .. Len(chain) :
                    chain[k].name = name /\ chain[k].user_id = user_id}
    IN IF hits = {} THEN 0 ELSE CHOOSE k \in hits : \A j \in hits : k <= j

NewRec(name, user_id, t) ==
    [account |-> NullStr, create_time |-> 0, id |-> 0, name |-> name,
     partition |-> NullStr, pool |-> NullStr, qos |-> NullStr,
     user_id |-> user_id, size |-> 0,
     job_id |-> 0, array_job_id |-> 0, array_task_id |-> NO_VAL,
     seen_time |-> t]

\* bb_alloc_name_rec: look the record up by (name, user_id), or create it at
\* the head of its bucket; yields the table and the record's position
bb_alloc_name_rec(tab, name, user_id, t) ==
    LET b == bb_hash(name)
        k == FindRec(tab[b], name, user_id)
    IN IF k # 0 THEN [tab |-> tab, b |-> b, k |-> k, created |-> FALSE]
       ELSE [tab |-> [tab EXCEPT ![b] = <<NewRec(name, user_id, t)>> \o @],
             b |-> b, k |-> 1, created |-> TRUE]

\* all records of the table, bucket by bucket, each chain from its head
RECURSIVE TableRecs(_, _)
TableRecs(tab, i) ==
    IF i >= BB_HASH_SIZE THEN <<>> ELSE tab[i] \o TableRecs(tab, i + 1)

\* the persistent fields of a registry record
Persist(r) ==
    [account |-> r.account, create_time |-> r.create_time, id |-> r.id,
     name |-> r.name, partition |-> r.partition, pool |-> r.pool,
     qos |-> r.qos, user_id |-> r.user_id, size |-> r.size]

SeqToSet(s) == {s[k] : k \in 1 .. Len(s)}

\* the registry as the set of its records' persistent fields
TableSet(tab) == {Persist(r) : r \in SeqToSet(TableRecs(tab, 0))}

(***************************************************************************)
(* Checkpoint codec.                                                       *)
(***************************************************************************)
\* a faulty PackRec: pool and qos are packed in the other order
PackRecSwapped(r) ==
    packstr(r.account) \o pack_time(r.create_time) \o pack32(r.id)
    \o packstr(r.name) \o packstr(r.partition) \o packstr(r.qos)
    \o packstr(r.pool) \o pack32(r.user_id) \o pack64(r.size)

\* _save_bb_state, lines 199-207: one record, in the file's field order
PackRec(r) ==
    packstr(r.account) \o pack_time(r.create_time) \o pack32(r.id)
    \o packstr(r.name) \o packstr(r.partition) \o packstr(r.pool)
    \o packstr(r.qos) \o pack32(r.user_id) \o pack64(r.size)

RECURSIVE PackRecs(_)
PackRecs(recs) ==
    IF recs = <<>> THEN <<>> ELSE PackRec(Head(recs)) \o PackRecs(Tail(recs))

\* lines 190-192: the version tag and the record-count placeholder
PackHeader == pack16(SLURM_PROTOCOL_VERSION) \o pack32(0)

\* lines 191, 214-217: overwrite the placeholder at count_offset (= 2)
BackPatch(buffer, rec_count) ==
    SubSeq(buffer, 1, 2) \o pack32(rec_count) \o SubSeq(buffer, 7, Len(buffer))

\* the locals of _recover_bb_state that hold one decoded record (lines 278-285)
InitLocals ==
    [account |-> NullStr, create_time |-> 0, id |-> 0, name |-> NullStr,
     partition |-> NullStr, pool |-> NullStr, qos |-> NullStr,
     user_id |-> 0, size |-> 0]

\* lines 330-338: the fields of a record in the order they are unpacked
UnpackLayout ==
    << <<"account", "str">>, <<"create_time", "time">>, <<"id", "u32">>,
       <<"name", "str">>, <<"partition", "str">>, <<"pool", "str">>,
       <<"qos", "str">>, <<"user_id", "u32">>, <<"size", "u64">> >>

unpack_field(type, data, off) ==
    IF type = "str" THEN unpackstr(data, off)
    ELSE IF type = "time" THEN unpack_time(data, off)
    ELSE IF type = "u32" THEN unpack32(data, off)
    ELSE unpack64(data, off)

\* the fields k, k+1, ... of the layout, unpacked from offset off on; the first
\* short read ends it with ok = FALSE (each field is bound before the next is
\* unpacked from where it ended)
RECURSIVE UnpackSeq(_, _, _)
UnpackSeq(data, off, k) ==
    IF k > Len(UnpackLayout) THEN [ok |-> TRUE, vals |-> <<>>, off |-> off]
    ELSE CHOOSE r \in UNION {
             IF ~h.ok THEN {[ok |-> FALSE, vals |-> <<>>, off |-> h.off]}
             ELSE {[ok |-> t.ok, vals |-> <<h.val>> \o t.vals, off |-> t.off] :
                      t \in {UnpackSeq(data, h.off, k + 1)}} :
             h \in {unpack_field(UnpackLayout[k][2], data, off)}} : TRUE

\* lines 329-339: unpack one record into the locals; a version below the floor
\* unpacks nothing and leaves the locals as they are
UnpackRec(version, data, off, lv) ==
    IF version < SLURM_21_08_PROTOCOL_VERSION
    THEN [ok |-> TRUE, lv |-> lv, off |-> off]
    ELSE CHOOSE r \in {
             IF ~u.ok THEN [ok |-> FALSE, lv |-> lv, off |-> off]
             ELSE [ok |-> TRUE,
                   lv |-> [account |-> u.vals[1], create_time |-> u.vals[2],
                           id |-> u.vals[3], name |-> u.vals[4],
                           partition |-> u.vals[5], pool |-> u.vals[6],
                           qos |-> u.vals[7], user_id |-> u.vals[8],
                           size |-> u.vals[9]],
                   off |-> u.off] :
             u \in {UnpackSeq(data, off, 1)}} : TRUE

IsDigit(b) == b >= 48 /\ b <= 57

\* strtol(name, &end_ptr, 10) of a name that starts with a digit
RECURSIVE strtol(_, _)
strtol(s, acc) ==
    IF s = <<>> \/ ~IsDigit(Head(s)) THEN acc
    ELSE strtol(Tail(s), acc * 10 + (Head(s) - 48))

\* lines 341-371: find or create the record and overwrite its fields
ApplyRec(tab, lv, t) ==
    LET got == bb_alloc_name_rec(tab, lv.name, lv.user_id, t)
        r0 == got.tab[got.b][got.k]
        r1 == [r0 EXCEPT !.id = lv.id]
        r2 == IF lv.name # NullStr /\ IsDigit(lv.name[1])
              THEN [r1 EXCEPT !.job_id = strtol(lv.name, 0),
                              !.array_job_id = strtol(lv.name, 0),
                              !.array_task_id = NO_VAL]
              ELSE r1
        r3 == [r2 EXCEPT !.seen_time = t, !.size = lv.size,
                         !.account = lv.account, !.create_time = lv.create_time,
                         !.partition = lv.partition, !.pool = lv.pool,
                         !.qos = lv.qos]
    IN [got.tab EXCEPT ![got.b][got.k] = r3]

\* lines 355-371: the string locals are handed over or freed, the rest stay
LocalsAfterApply(lv) ==
    [lv EXCEPT !.account = NullStr, !.name = NullStr, !.partition = NullStr,
               !.pool = NullStr, !.qos = NullStr]

\* lines 328-376 as a whole: records i+1 .. n decoded from offset off on and
\* put into tab; good is the number of records decoded before the first short
\* read
RECURSIVE RecoverRecs(_, _, _, _, _, _, _)
RecoverRecs(version, data, off, lv, i, n, tab) ==
    IF i >= n THEN [tab |-> tab, good |-> i]
    ELSE LET u == UnpackRec(version, data, off, lv)
         IN IF ~u.ok THEN [tab |-> tab, good |-> i]
            ELSE RecoverRecs(version, data, u.off, LocalsAfterApply(u.lv), i + 1, n,
                             ApplyRec(tab, u.lv, 0))

\* lines 316-376 as a whole: what decoding data does to tab (seen_time aside)
RecoverResult(tab, data) ==
    LET v == unpack16(data, 0)
        c == unpack32(data, v.off)
    IN IF ~v.ok \/ v.val = NO_VAL16 \/ ~c.ok THEN [tab |-> tab, good |-> 0]
       ELSE RecoverRecs(v.val, data, c.off, InitLocals, 0, c.val, tab)

(***************************************************************************)
(* The state save directory: three names over inodes.                      *)
(***************************************************************************)
Names == {"old", "reg", "new"}
Inodes == 1 .. 3

\* disk.fs[n] is the inode name n refers to (0: no such file),
\* disk.idata[i] the bytes of inode i
EmptyDisk == [fs |-> [n \in Names |-> 0], idata |-> [i \in Inodes |-> <<>>]]

Exists(d, n) == d.fs[n] # 0

Content(d, n) == IF d.fs[n] = 0 THEN <<>> ELSE d.idata[d.fs[n]]

FreeInode(d) == CHOOSE i \in Inodes :
                   /\ \A n \in Names : d.fs[n] # i
                   /\ \A j \in Inodes : (\A n \in Names : d.fs[n] # j) => i <= j

\* creat(path, 0600): a new empty file, or the existing one truncated
fs_creat(d, n) ==
    IF d.fs[n] # 0 THEN [d EXCEPT !.idata[d.fs[n]] = <<>>]
    ELSE LET i == FreeInode(d)
         IN [fs |-> [d.fs EXCEPT ![n] = i], idata |-> [d.idata EXCEPT ![i] = <<>>]]

\* write(fd, bytes) at the file offset of a freshly created file: appends
fs_append(d, n, bytes) == [d EXCEPT !.idata[d.fs[n]] = @ \o bytes]

\* unlink(path): the inode's bytes go with its last name
fs_unlink(d, n) ==
    IF d.fs[n] = 0 THEN d
    ELSE LET i == d.fs[n]
             last == \A m \in Names \ {n} : d.fs[m] # i
         IN [fs |-> [d.fs EXCEPT ![n] = 0],
             idata |-> IF last THEN [d.idata EXCEPT ![i] = <<>>] ELSE d.idata]

\* link(from, to) can succeed only if from exists and to does not
CanLink(d, from, to) == d.fs[from] # 0 /\ d.fs[to] = 0

fs_link(d, from, to) == [d EXCEPT !.fs[to] = d.fs[from]]

(***************************************************************************)
(* State.                                                                  *)
(***************************************************************************)
VARIABLES
    now,                 \* time(NULL)
    bb_ahash,            \* bb_state.bb_ahash: the table
    ahash_ok,            \* bb_state.bb_ahash # NULL
    last_update_time,    \* bb_state.last_update_time
    term_flag,           \* bb_state.term_flag
    bb_thread,           \* bb_state.bb_thread # 0
    bb_mutex,            \* owner of bb_state.bb_mutex, or "none"
    term_mutex,          \* owner of bb_state.term_mutex, or "none"
    ext_lock,            \* owner of slurmctld's job write lock, or "none"
    pc,                  \* position of each thread
    disk,                \* the state save directory
    last_save_time,      \* static of _save_bb_state
    sv,                  \* locals of _save_bb_state
    rv,                  \* locals of _recover_bb_state
    ignore_state_errors, \* slurmctld -i
    io_faults,           \* the environment may fail or cut short file operations
    dead,                \* the process was ended by fatal()
    timeouts,            \* expiries of the agent's sleep so far
    host_ops,            \* registry operations of the host so far
    hist                 \* history: what the run has done so far

vars == << now, bb_ahash, ahash_ok, last_update_time, term_flag, bb_thread,
           bb_mutex, term_mutex, ext_lock, pc, disk, last_save_time, sv, rv,
           ignore_state_errors, io_faults, dead, timeouts, host_ops, hist >>

Threads == {"main", "agent", "host"}

\* locals of _save_bb_state between calls
SvIdle == [buffer |-> <<>>, rec_count |-> 0, save_time |-> 0, pos |-> 0,
           nwrite |-> 0, error_code |-> 0, eintr |-> 0]

\* locals of _recover_bb_state between calls
RvIdle == [data |-> <<>>, off |-> 0, version |-> NO_VAL16, rec_count |-> 0,
           i |-> 0, lv |-> InitLocals]

\* history of the run:
\*  loads, restarts            completed calls of _recover_bb_state, restarts
\*  reg0 .. lst0, io_failed    the directory and last_save_time as the current
\*                             _save_bb_state found them; whether a step of
\*                             writing the temp file failed
\*  tab0, data0, ver, cnt      the table as the current _recover_bb_state found
\*                             it, the bytes it read, the version tag and the
\*                             record count it decoded (-1: none)
\*  saved_ok, saved_set, saved_bytes
\*                             the last _save_bb_state that ended without an
\*                             error code: the records it packed, its buffer
\*  prev_ok, prev_set          saved_ok and saved_set as the current
\*                             _save_bb_state found them
\*  term_set                   the records of the registry when fini set
\*                             term_flag
HistInit == [loads |-> 0, restarts |-> 0, prev_ok |-> FALSE, prev_set |-> {},
             term_set |-> {},
             reg0 |-> <<>>, reg0_ex |-> FALSE, old0 |-> <<>>,
             old0_ex |-> FALSE, lst0 |-> 0, io_failed |-> FALSE,
             tab0 |-> EmptyTable, data0 |-> <<>>, ver |-> -1, cnt |-> -1,
             saved_ok |-> FALSE, saved_set |-> {}, saved_bytes |-> <<>>]

(***************************************************************************)
(* Checkpoint payloads the state save directory may hold at start-up.      *)
(***************************************************************************)
Payload(version, count, recs) == pack16(version) \o pack32(count) \o PackRecs(recs)

Rec(name, user_id, id, size, pool) ==
    [account |-> NullStr, create_time |-> 1, id |-> id, name |-> name,
     partition |-> NullStr, pool |-> pool, qos |-> NullStr,
     user_id |-> user_id, size |-> size]

\* name "1", owner 1
R1 == Rec(<<49>>, 1, 7, 3, <<112>>)
\* name "a", owner 0
R2 == Rec(<<97>>, 0, 8, 4, NullStr)

ValidFile == Payload(SLURM_PROTOCOL_VERSION, 1, <<R1>>)
SentinelFile == Payload(NO_VAL16, 1, <<R1>>)
OldVersionFile == Payload(SLURM_20_11_PROTOCOL_VERSION, 1, <<R1>>)
TruncatedFile == SubSeq(ValidFile, 1, Len(ValidFile) - 3)

InitFiles == {ValidFile, SentinelFile, OldVersionFile, TruncatedFile}

\* the state when the plugin is loaded, before init() runs
Boot(files, lenient, faults) ==
    /\ now = 1
    /\ bb_ahash = EmptyTable
    /\ ahash_ok = FALSE
    /\ last_update_time = 0
    /\ term_flag = FALSE
    /\ bb_thread = FALSE
    /\ bb_mutex = "none"
    /\ term_mutex = "none"
    /\ ext_lock = "none"
    /\ pc = [t \in Threads |->
               IF t = "main" THEN "i_lock" ELSE IF t = "agent" THEN "unborn" ELSE "h_idle"]
    /\ \/ disk = EmptyDisk
       \/ \E f \in files :
             disk = [EmptyDisk EXCEPT !.fs["reg"] = 1, !.idata[1] = f]
    /\ last_save_time = 0
    /\ sv = SvIdle
    /\ rv = RvIdle
    /\ ignore_state_errors \in lenient
    /\ io_faults \in faults
    /\ dead = FALSE
    /\ timeouts = 0
    /\ host_ops = 0
    /\ hist = HistInit

Init == Boot({ValidFile, SentinelFile}, BOOLEAN, {FALSE})

At(t, here) == ~dead /\ pc[t] = here
Goto(t, there) == pc' = [pc EXCEPT ![t] = there]

(***************************************************************************)
(* _bb_agent and bb_sleep.                                                 *)
(***************************************************************************)
\* line 411: while (!bb_state.term_flag)
AgentLoopTest ==
    /\ At("agent", "a_test")
    /\ Goto("agent", IF term_flag THEN "stopped" ELSE "sl_lock")
    /\ UNCHANGED << now, bb_ahash, ahash_ok, last_update_time, term_flag, bb_thread,
                    bb_mutex, term_mutex, ext_lock, disk, last_save_time, sv, rv,
                    ignore_state_errors, io_faults, dead, timeouts, host_ops, hist >>

\* bb_sleep: take term_mutex
SleepLock ==
    /\ At("agent", "sl_lock")
    /\ term_mutex = "none"
    /\ term_mutex' = "agent"
    /\ Goto("agent", "sl_check")
    /\ UNCHANGED << now, bb_ahash, ahash_ok, last_update_time, term_flag, bb_thread,
                    bb_mutex, ext_lock, disk, last_save_time, sv, rv,
                    ignore_state_errors, io_faults, dead, timeouts, host_ops, hist >>

\* bb_sleep: wait on term_cond (releasing term_mutex) unless the flag is set
SleepCheck ==
    /\ At("agent", "sl_check")
    /\ IF term_flag
       THEN Goto("agent", "sl_unlock") /\ UNCHANGED term_mutex
       ELSE Goto("agent", "sl_wait") /\ term_mutex' = "none"
    /\ UNCHANGED << now, bb_ahash, ahash_ok, last_update_time, term_flag, bb_thread,
                    bb_mutex, ext_lock, disk, last_save_time, sv, rv,
                    ignore_state_errors, io_faults, dead, timeouts, host_ops, hist >>

\* bb_sleep: the timed wait expires after AGENT_INTERVAL
SleepTimeout ==
    /\ At("agent", "sl_wait")
    /\ timeouts < MaxCycles
    /\ timeouts' = timeouts + 1
    /\ Goto("agent", "sl_wake")
    /\ UNCHANGED << now, bb_ahash, ahash_ok, last_update_time, term_flag, bb_thread,
                    bb_mutex, term_mutex, ext_lock, disk, last_save_time, sv, rv,
                    ignore_state_errors, io_faults, dead, host_ops, hist >>

\* bb_sleep: the wait returns once term_mutex is taken again
SleepWake ==
    /\ At("agent", "sl_wake")
    /\ term_mutex = "none"
    /\ term_mutex' = "agent"
    /\ Goto("agent", "sl_unlock")
    /\ UNCHANGED << now, bb_ahash, ahash_ok, last_update_time, term_flag, bb_thread,
                    bb_mutex, ext_lock, disk, last_save_time, sv, rv,
                    ignore_state_errors, io_faults, dead, timeouts, host_ops, hist >>

\* bb_sleep: release term_mutex and return
SleepUnlock ==
    /\ At("agent", "sl_unlock")
    /\ term_mutex' = "none"
    /\ Goto("agent", "a_test2")
    /\ UNCHANGED << now, bb_ahash, ahash_ok, last_update_time, term_flag, bb_thread,
                    bb_mutex, ext_lock, disk, last_save_time, sv, rv,
                    ignore_state_errors, io_faults, dead, timeouts, host_ops, hist >>

\* line 413: if (!bb_state.term_flag)
AgentTermTest ==
    /\ At("agent", "a_test2")
    /\ Goto("agent", IF term_flag THEN "s_check" ELSE "r_open")
    /\ UNCHANGED << now, bb_ahash, ahash_ok, last_update_time, term_flag, bb_thread,
                    bb_mutex, term_mutex, ext_lock, disk, last_save_time, sv, rv,
                    ignore_state_errors, io_faults, dead, timeouts, host_ops, hist >>

\* line 415: lock_slurmctld(job_write_lock)
AgentLockExt ==
    /\ At("agent", "a_lock_ext")
    /\ ext_lock = "none"
    /\ ext_lock' = "agent"
    /\ Goto("agent", "a_lock_bb")
    /\ UNCHANGED << now, bb_ahash, ahash_ok, last_update_time, term_flag, bb_thread,
                    bb_mutex, term_mutex, disk, last_save_time, sv, rv,
                    ignore_state_errors, io_faults, dead, timeouts, host_ops, hist >>

\* line 416: slurm_mutex_lock(&bb_state.bb_mutex)
AgentLockMutex ==
    /\ At("agent", "a_lock_bb")
    /\ bb_mutex = "none"
    /\ bb_mutex' = "agent"
    /\ Goto("agent", "a_timeout")
    /\ UNCHANGED << now, bb_ahash, ahash_ok, last_update_time, term_flag, bb_thread,
                    term_mutex, ext_lock, disk, last_save_time, sv, rv,
                    ignore_state_errors, io_faults, dead, timeouts, host_ops, hist >>

\* lines 417-418: _timeout_bb_rec() (empty), then release bb_mutex
AgentUnlockMutex ==
    /\ At("agent", "a_timeout")
    /\ bb_mutex' = "none"
    /\ Goto("agent", "a_unlock_ext")
    /\ UNCHANGED << now, bb_ahash, ahash_ok, last_update_time, term_flag, bb_thread,
                    term_mutex, ext_lock, disk, last_save_time, sv, rv,
                    ignore_state_errors, io_faults, dead, timeouts, host_ops, hist >>

\* line 419: unlock_slurmctld(job_write_lock)
AgentUnlockExt ==
    /\ At("agent", "a_unlock_ext")
    /\ ext_lock' = "none"
    /\ Goto("agent", "s_check")
    /\ UNCHANGED << now, bb_ahash, ahash_ok, last_update_time, term_flag, bb_thread,
                    bb_mutex, term_mutex, disk, last_save_time, sv, rv,
                    ignore_state_errors, io_faults, dead, timeouts, host_ops, hist >>

(***************************************************************************)
(* _recover_bb_state and _load_state, run by the agent.                    *)
(***************************************************************************)
\* bb_open_state_file: opens the canonical checkpoint file, fails if absent
bb_open_state_file(d) == Exists(d, "reg")

\* a return of _recover_bb_state (lines 294, 324, 376, 387)
RecoverReturn(h) ==
    /\ Goto("agent", "ld_time")
    /\ rv' = RvIdle
    /\ hist' = [h EXCEPT !.loads = @ + 1]
    /\ UNCHANGED dead

\* fatal(): the process ends here
Fatal(h) ==
    /\ dead' = TRUE
    /\ hist' = h
    /\ UNCHANGED << pc, rv >>

\* a faulty UnpackError: an incomplete file is never fatal
UnpackErrorNeverFatal(h) == RecoverReturn(h)

\* lines 378-387: unpack_error
UnpackError(h) == IF ~ignore_state_errors THEN Fatal(h) ELSE RecoverReturn(h)

\* a faulty VersionIncompatible: the sentinel is not recognised
VersionNeverIncompatible(v) == FALSE

\* line 318: the version tag that marks an incompatible checkpoint
VersionIncompatible(v) == v = NO_VAL16

\* a faulty RecoverOpen: a failed open is not noticed
RecoverOpenAnyway ==
    /\ At("agent", "r_open")
    /\ hist' = [hist EXCEPT !.tab0 = bb_ahash, !.data0 = <<>>, !.ver = -1, !.cnt = -1]
    /\ Goto("agent", "r_read")
    /\ UNCHANGED << now, bb_ahash, ahash_ok, last_update_time, term_flag, bb_thread,
                    bb_mutex, term_mutex, ext_lock, disk, last_save_time, sv, rv,
                    ignore_state_errors, io_faults, dead, timeouts, host_ops >>

\* lines 289-295
RecoverOpen ==
    /\ At("agent", "r_open")
    /\ LET h == [hist EXCEPT !.tab0 = bb_ahash, !.data0 = <<>>, !.ver = -1, !.cnt = -1]
       IN IF ~bb_open_state_file(disk)
          THEN RecoverReturn(h)
          ELSE Goto("agent", "r_read") /\ hist' = h /\ UNCHANGED << rv, dead >>
    /\ UNCHANGED << now, bb_ahash, ahash_ok, last_update_time, term_flag, bb_thread,
                    bb_mutex, term_mutex, ext_lock, disk, last_save_time, sv,
                    ignore_state_errors, io_faults, timeouts, host_ops >>

\* lines 296-316: read the whole file; a read error ends the loop with what
\* was read before it (nothing: the file fits one read)
RecoverRead ==
    /\ At("agent", "r_read")
    /\ \/ rv' = [rv EXCEPT !.data = Content(disk, "reg")]
       \/ io_faults /\ rv' = [rv EXCEPT !.data = <<>>]
    /\ hist' = [hist EXCEPT !.data0 = rv'.data]
    /\ Goto("agent", "r_header")
    /\ UNCHANGED << now, bb_ahash, ahash_ok, last_update_time, term_flag, bb_thread,
                    bb_mutex, term_mutex, ext_lock, disk, last_save_time, sv,
                    ignore_state_errors, io_faults, dead, timeouts, host_ops >>

\* lines 317-327: the version tag, the sentinel test, the record count
RecoverHeader ==
    /\ At("agent", "r_header")
    /\ LET v == unpack16(rv.data, 0)
           c == unpack32(rv.data, v.off)
           hv == [hist EXCEPT !.ver = v.val]
       IN IF ~v.ok THEN UnpackError(hist)
          ELSE IF VersionIncompatible(v.val)
               THEN IF ~ignore_state_errors THEN Fatal(hv) ELSE RecoverReturn(hv)
          ELSE IF ~c.ok THEN UnpackError(hv)
          ELSE /\ rv' = [rv EXCEPT !.version = v.val, !.rec_count = c.val,
                                   !.off = c.off, !.i = 0]
               /\ hist' = [hv EXCEPT !.cnt = c.val]
               /\ Goto("agent", "r_loop")
               /\ UNCHANGED dead
    /\ UNCHANGED << now, bb_ahash, ahash_ok, last_update_time, term_flag, bb_thread,
                    bb_mutex, term_mutex, ext_lock, disk, last_save_time, sv,
                    ignore_state_errors, io_faults, timeouts, host_ops >>

\* lines 328-339 and 374-376: the loop test and the unpacking of one record
RecoverUnpack ==
    /\ At("agent", "r_loop")
    /\ IF rv.i >= rv.rec_count THEN RecoverReturn(hist)
       ELSE LET u == UnpackRec(rv.version, rv.data, rv.off, rv.lv)
            IN IF ~u.ok THEN UnpackError(hist)
               ELSE /\ rv' = [rv EXCEPT !.lv = u.lv, !.off = u.off]
                    /\ Goto("agent", "r_apply")
                    /\ UNCHANGED << hist, dead >>
    /\ UNCHANGED << now, bb_ahash, ahash_ok, last_update_time, term_flag, bb_thread,
                    bb_mutex, term_mutex, ext_lock, disk, last_save_time, sv,
                    ignore_state_errors, io_faults, timeouts, host_ops >>

\* lines 341-371: the record goes into the table
RecoverApply ==
    /\ At("agent", "r_apply")
    /\ bb_ahash' = ApplyRec(bb_ahash, rv.lv, now)
    /\ last_update_time' =
          IF bb_alloc_name_rec(bb_ahash, rv.lv.name, rv.lv.user_id, now).created
          THEN now ELSE last_update_time
    /\ rv' = [rv EXCEPT !.lv = LocalsAfterApply(rv.lv), !.i = @ + 1]
    /\ Goto("agent", "r_loop")
    /\ UNCHANGED << now, ahash_ok, term_flag, bb_thread,
                    bb_mutex, term_mutex, ext_lock, disk, last_save_time, sv,
                    ignore_state_errors, io_faults, dead, timeouts, host_ops, hist >>

\* _load_state, lines 398-399, after _recover_bb_state has returned
LoadStateTime ==
    /\ At("agent", "ld_time")
    /\ last_update_time' = now
    /\ hist' = [hist EXCEPT !.tab0 = EmptyTable, !.data0 = <<>>, !.ver = -1, !.cnt = -1]
    /\ Goto("agent", "a_lock_ext")
    /\ UNCHANGED << now, bb_ahash, ahash_ok, term_flag, bb_thread,
                    bb_mutex, term_mutex, ext_lock, disk, last_save_time, sv, rv,
                    ignore_state_errors, io_faults, dead, timeouts, host_ops >>

(***************************************************************************)
(* _save_bb_state, run by the agent.                                       *)
(***************************************************************************)
\* a faulty SaveSkip: the termination flag is not looked at
SaveSkipIgnoresTerm == last_update_time <= last_save_time

\* a faulty SaveSkip: a registry updated in the second of the last save is
\* taken for changed
SaveSkipStrict == last_update_time < last_save_time /\ ~term_flag

\* lines 185-187: nothing to do unless the registry changed or we terminate
SaveSkip == last_update_time <= last_save_time /\ ~term_flag

\* lines 176-192
SaveCheck ==
    /\ At("agent", "s_check")
    /\ IF SaveSkip
       THEN Goto("agent", "a_test") /\ UNCHANGED << sv, hist >>
       ELSE /\ Goto("agent", "s_ahash")
            /\ sv' = [SvIdle EXCEPT !.buffer = PackHeader, !.save_time = now]
            /\ hist' = [hist EXCEPT !.reg0 = Content(disk, "reg"),
                                    !.reg0_ex = Exists(disk, "reg"),
                                    !.old0 = Content(disk, "old"),
                                    !.old0_ex = Exists(disk, "old"),
                                    !.lst0 = last_save_time,
                                    !.io_failed = FALSE,
                                    !.prev_ok = hist.saved_ok,
                                    !.prev_set = hist.saved_set,
                                    !.saved_ok = FALSE,
                                    !.saved_set = {},
                                    !.saved_bytes = <<>>]
    /\ UNCHANGED << now, bb_ahash, ahash_ok, last_update_time, term_flag, bb_thread,
                    bb_mutex, term_mutex, ext_lock, disk, last_save_time, rv,
                    ignore_state_errors, io_faults, dead, timeouts, host_ops >>

\* line 194: if (bb_state.bb_ahash)
SaveTestAhash ==
    /\ At("agent", "s_ahash")
    /\ Goto("agent", IF ahash_ok THEN "s_lock" ELSE "s_creat")
    /\ UNCHANGED << now, bb_ahash, ahash_ok, last_update_time, term_flag, bb_thread,
                    bb_mutex, term_mutex, ext_lock, disk, last_save_time, sv, rv,
                    ignore_state_errors, io_faults, dead, timeouts, host_ops, hist >>

\* line 195
SaveLock ==
    /\ At("agent", "s_lock")
    /\ bb_mutex = "none"
    /\ bb_mutex' = "agent"
    /\ Goto("agent", "s_pack")
    /\ UNCHANGED << now, bb_ahash, ahash_ok, last_update_time, term_flag, bb_thread,
                    term_mutex, ext_lock, disk, last_save_time, sv, rv,
                    ignore_state_errors, io_faults, dead, timeouts, host_ops, hist >>

\* lines 196-212: every record of every bucket, then save_time
SavePack ==
    /\ At("agent", "s_pack")
    /\ LET recs == TableRecs(bb_ahash, 0)
       IN sv' = [sv EXCEPT !.buffer = @ \o PackRecs(recs),
                           !.rec_count = Len(recs),
                           !.save_time = now]
    /\ hist' = [hist EXCEPT !.saved_set = TableSet(bb_ahash)]
    /\ Goto("agent", "s_unlock")
    /\ UNCHANGED << now, bb_ahash, ahash_ok, last_update_time, term_flag, bb_thread,
                    bb_mutex, term_mutex, ext_lock, disk, last_save_time, rv,
                    ignore_state_errors, io_faults, dead, timeouts, host_ops >>

\* a faulty SaveUnlock: the mutex is kept for the file write
SaveUnlockKeepsMutex ==
    /\ At("agent", "s_unlock")
    /\ sv' = [sv EXCEPT !.buffer = BackPatch(@, sv.rec_count)]
    /\ Goto("agent", "s_creat")
    /\ UNCHANGED << now, bb_ahash, ahash_ok, last_update_time, term_flag, bb_thread,
                    bb_mutex, term_mutex, ext_lock, disk, last_save_time, rv,
                    ignore_state_errors, io_faults, dead, timeouts, host_ops, hist >>

\* lines 213-217: release the mutex, write the count over the placeholder
SaveUnlock ==
    /\ At("agent", "s_unlock")
    /\ bb_mutex' = "none"
    /\ sv' = [sv EXCEPT !.buffer = BackPatch(@, sv.rec_count)]
    /\ Goto("agent", "s_creat")
    /\ UNCHANGED << now, bb_ahash, ahash_ok, last_update_time, term_flag, bb_thread,
                    term_mutex, ext_lock, disk, last_save_time, rv,
                    ignore_state_errors, io_faults, dead, timeouts, host_ops, hist >>

\* lines 227-235: creat(new_file); on failure error_code = errno
SaveCreat ==
    /\ At("agent", "s_creat")
    /\ \/ /\ disk' = fs_creat(disk, "new")
          /\ sv' = [sv EXCEPT !.pos = 0, !.nwrite = Len(sv.buffer)]
          /\ Goto("agent", "s_write")
          /\ UNCHANGED hist
       \/ /\ io_faults
          /\ sv' = [sv EXCEPT !.error_code = 1]
          /\ hist' = [hist EXCEPT !.io_failed = TRUE]
          /\ Goto("agent", "s_branch")
          /\ UNCHANGED disk
    /\ UNCHANGED << now, bb_ahash, ahash_ok, last_update_time, term_flag, bb_thread,
                    bb_mutex, term_mutex, ext_lock, last_save_time, rv,
                    ignore_state_errors, io_faults, dead, timeouts, host_ops >>

\* what write() may return when given n bytes: all of them, or a short count
WriteAmounts(n) == {n} \cup {k \in {WriteChunk} : io_faults /\ k < n}

\* a byte read from before the start of the buffer
GarbageBytes == {0, 255}

\* the bytes &data[pos] .. &data[pos + amount - 1]
WriteBytes(buffer, pos, amount, g) ==
    [k \in 1 .. amount |-> IF pos + k < 1 THEN g ELSE buffer[pos + k]]

\* lines 238-241: what the loop does with write()'s error return:
\* TRUE to leave the loop, FALSE to go on
WriteErrorBreaks(eintr) == ~eintr

\* lines 242-243 after an amount the loop did not break on
AfterWrite(s, amount) == [s EXCEPT !.nwrite = @ - amount, !.pos = @ + amount]

\* lines 236-244: one turn of the write loop
SaveWrite ==
    /\ At("agent", "s_write")
    /\ \/ \E amount \in WriteAmounts(sv.nwrite), g \in GarbageBytes :
            /\ (sv.pos >= 0 => g = 0)
            /\ disk' = fs_append(disk, "new", WriteBytes(sv.buffer, sv.pos, amount, g))
            /\ sv' = AfterWrite(sv, amount)
            /\ Goto("agent", IF sv.nwrite - amount > 0 THEN "s_write" ELSE "s_fsync")
            /\ UNCHANGED hist
       \/ /\ io_faults
          /\ sv.eintr < MaxEintr
          /\ ~WriteErrorBreaks(TRUE)
          /\ sv' = [AfterWrite(sv, -1) EXCEPT !.eintr = @ + 1]
          /\ Goto("agent", "s_write")
          /\ UNCHANGED << disk, hist >>
       \/ /\ io_faults
          /\ WriteErrorBreaks(FALSE)
          /\ hist' = [hist EXCEPT !.io_failed = TRUE]
          /\ Goto("agent", "s_fsync")
          /\ UNCHANGED << disk, sv >>
    /\ UNCHANGED << now, bb_ahash, ahash_ok, last_update_time, term_flag, bb_thread,
                    bb_mutex, term_mutex, ext_lock, last_save_time, rv,
                    ignore_state_errors, io_faults, dead, timeouts, host_ops >>

\* lines 246-248: rc = fsync_and_close(); if (rc && !error_code) error_code = rc
SaveFsync ==
    /\ At("agent", "s_fsync")
    /\ \/ UNCHANGED << sv, hist >>
       \/ /\ io_faults
          /\ sv' = [sv EXCEPT !.error_code = IF @ = 0 THEN 1 ELSE @]
          /\ hist' = [hist EXCEPT !.io_failed = TRUE]
    /\ Goto("agent", "s_branch")
    /\ UNCHANGED << now, bb_ahash, ahash_ok, last_update_time, term_flag, bb_thread,
                    bb_mutex, term_mutex, ext_lock, disk, last_save_time, rv,
                    ignore_state_errors, io_faults, dead, timeouts, host_ops >>

\* lines 250-254: drop the temp file, or start the file shuffle
SaveBranch ==
    /\ At("agent", "s_branch")
    /\ IF sv.error_code # 0
       THEN /\ disk' = fs_unlink(disk, "new")
            /\ Goto("agent", "s_free")
            /\ UNCHANGED last_save_time
       ELSE /\ last_save_time' = sv.save_time
            /\ Goto("agent", "s_unlink_old")
            /\ UNCHANGED disk
    /\ UNCHANGED << now, bb_ahash, ahash_ok, last_update_time, term_flag, bb_thread,
                    bb_mutex, term_mutex, ext_lock, sv, rv,
                    ignore_state_errors, io_faults, dead, timeouts, host_ops, hist >>

\* line 255
SaveUnlinkOld ==
    /\ At("agent", "s_unlink_old")
    /\ disk' = fs_unlink(disk, "old")
    /\ Goto("agent", "s_link_old")
    /\ UNCHANGED << now, bb_ahash, ahash_ok, last_update_time, term_flag, bb_thread,
                    bb_mutex, term_mutex, ext_lock, last_save_time, sv, rv,
                    ignore_state_errors, io_faults, dead, timeouts, host_ops, hist >>

\* lines 256-259: link(reg_file, old_file), a failure is only logged
SaveLinkOld ==
    /\ At("agent", "s_link_old")
    /\ \/ CanLink(disk, "reg", "old") /\ disk' = fs_link(disk, "reg", "old")
       \/ (io_faults \/ ~CanLink(disk, "reg", "old")) /\ UNCHANGED disk
    /\ Goto("agent", "s_unlink_reg")
    /\ UNCHANGED << now, bb_ahash, ahash_ok, last_update_time, term_flag, bb_thread,
                    bb_mutex, term_mutex, ext_lock, last_save_time, sv, rv,
                    ignore_state_errors, io_faults, dead, timeouts, host_ops, hist >>

\* line 260
SaveUnlinkReg ==
    /\ At("agent", "s_unlink_reg")
    /\ disk' = fs_unlink(disk, "reg")
    /\ Goto("agent", "s_link_reg")
    /\ UNCHANGED << now, bb_ahash, ahash_ok, last_update_time, term_flag, bb_thread,
                    bb_mutex, term_mutex, ext_lock, last_save_time, sv, rv,
                    ignore_state_errors, io_faults, dead, timeouts, host_ops, hist >>

\* lines 261-264: link(new_file, reg_file), a failure is only logged
SaveLinkReg ==
    /\ At("agent", "s_link_reg")
    /\ \/ CanLink(disk, "new", "reg") /\ disk' = fs_link(disk, "new", "reg")
       \/ (io_faults \/ ~CanLink(disk, "new", "reg")) /\ UNCHANGED disk
    /\ Goto("agent", "s_unlink_new")
    /\ UNCHANGED << now, bb_ahash, ahash_ok, last_update_time, term_flag, bb_thread,
                    bb_mutex, term_mutex, ext_lock, last_save_time, sv, rv,
                    ignore_state_errors, io_faults, dead, timeouts, host_ops, hist >>

\* line 265
SaveUnlinkNew ==
    /\ At("agent", "s_unlink_new")
    /\ disk' = fs_unlink(disk, "new")
    /\ Goto("agent", "s_free")
    /\ UNCHANGED << now, bb_ahash, ahash_ok, last_update_time, term_flag, bb_thread,
                    bb_mutex, term_mutex, ext_lock, last_save_time, sv, rv,
                    ignore_state_errors, io_faults, dead, timeouts, host_ops, hist >>

\* lines 267-271: free the buffer and return to the agent's loop
SaveFree ==
    /\ At("agent", "s_free")
    /\ sv' = SvIdle
    /\ hist' = [hist EXCEPT !.reg0 = <<>>, !.reg0_ex = FALSE, !.old0 = <<>>,
                            !.old0_ex = FALSE, !.lst0 = 0, !.io_failed = FALSE,
                            !.prev_ok = FALSE, !.prev_set = {},
                            !.saved_ok = (sv.error_code = 0),
                            !.saved_set = IF sv.error_code = 0 THEN @ ELSE {},
                            !.saved_bytes = IF sv.error_code = 0 THEN sv.buffer ELSE <<>>]
    /\ Goto("agent", "a_test")
    /\ UNCHANGED << now, bb_ahash, ahash_ok, last_update_time, term_flag, bb_thread,
                    bb_mutex, term_mutex, ext_lock, disk, last_save_time, rv,
                    ignore_state_errors, io_faults, dead, timeouts, host_ops >>

(***************************************************************************)
(* init, bb_p_load_state and fini, run by the main thread of the host.     *)
(***************************************************************************)
\* lines 433-434
InitLock ==
    /\ At("main", "i_lock")
    /\ bb_mutex = "none"
    /\ bb_mutex' = "main"
    /\ Goto("main", "i_config")
    /\ UNCHANGED << now, bb_ahash, ahash_ok, last_update_time, term_flag, bb_thread,
                    term_mutex, ext_lock, disk, last_save_time, sv, rv,
                    ignore_state_errors, io_faults, dead, timeouts, host_ops, hist >>

\* lines 435-437: bb_load_config, bb_alloc_cache (an empty table)
InitConfig ==
    /\ At("main", "i_config")
    /\ ahash_ok' = TRUE
    /\ bb_ahash' = EmptyTable
    /\ Goto("main", "i_create")
    /\ UNCHANGED << now, last_update_time, term_flag, bb_thread,
                    bb_mutex, term_mutex, ext_lock, disk, last_save_time, sv, rv,
                    ignore_state_errors, io_faults, dead, timeouts, host_ops, hist >>

\* line 438: slurm_thread_create(&bb_state.bb_thread, _bb_agent, NULL)
InitCreateThread ==
    /\ At("main", "i_create")
    /\ bb_thread' = TRUE
    /\ pc' = [pc EXCEPT !["main"] = "i_unlock", !["agent"] = "a_test"]
    /\ UNCHANGED << now, bb_ahash, ahash_ok, last_update_time, term_flag,
                    bb_mutex, term_mutex, ext_lock, disk, last_save_time, sv, rv,
                    ignore_state_errors, io_faults, dead, timeouts, host_ops, hist >>

\* lines 439-441
InitUnlock ==
    /\ At("main", "i_unlock")
    /\ bb_mutex' = "none"
    /\ Goto("main", "m_run")
    /\ UNCHANGED << now, bb_ahash, ahash_ok, last_update_time, term_flag, bb_thread,
                    term_mutex, ext_lock, disk, last_save_time, sv, rv,
                    ignore_state_errors, io_faults, dead, timeouts, host_ops, hist >>

\* lines 488-491: bb_p_load_state(init_config) returns SLURM_SUCCESS
bb_p_load_state ==
    /\ At("main", "m_run")
    /\ Goto("main", "m_idle")
    /\ UNCHANGED << now, bb_ahash, ahash_ok, last_update_time, term_flag, bb_thread,
                    bb_mutex, term_mutex, ext_lock, disk, last_save_time, sv, rv,
                    ignore_state_errors, io_faults, dead, timeouts, host_ops, hist >>

\* line 449
FiniLock ==
    /\ At("main", "m_idle")
    /\ bb_mutex = "none"
    /\ bb_mutex' = "main"
    /\ Goto("main", "f_lock_term")
    /\ UNCHANGED << now, bb_ahash, ahash_ok, last_update_time, term_flag, bb_thread,
                    term_mutex, ext_lock, disk, last_save_time, sv, rv,
                    ignore_state_errors, io_faults, dead, timeouts, host_ops, hist >>

\* line 452
FiniLockTerm ==
    /\ At("main", "f_lock_term")
    /\ term_mutex = "none"
    /\ term_mutex' = "main"
    /\ Goto("main", "f_set")
    /\ UNCHANGED << now, bb_ahash, ahash_ok, last_update_time, term_flag, bb_thread,
                    bb_mutex, ext_lock, disk, last_save_time, sv, rv,
                    ignore_state_errors, io_faults, dead, timeouts, host_ops, hist >>

\* line 453
FiniSetFlag ==
    /\ At("main", "f_set")
    /\ term_flag' = TRUE
    /\ hist' = [hist EXCEPT !.term_set = TableSet(bb_ahash)]
    /\ Goto("main", "f_signal")
    /\ UNCHANGED << now, bb_ahash, ahash_ok, last_update_time, bb_thread,
                    bb_mutex, term_mutex, ext_lock, disk, last_save_time, sv, rv,
                    ignore_state_errors, io_faults, dead, timeouts, host_ops >>

\* a faulty FiniSignal: the condition is not signalled
FiniSignalLost ==
    /\ At("main", "f_signal")
    /\ Goto("main", "f_unlock_term")
    /\ UNCHANGED << now, bb_ahash, ahash_ok, last_update_time, term_flag, bb_thread,
                    bb_mutex, term_mutex, ext_lock, disk, last_save_time, sv, rv,
                    ignore_state_errors, io_faults, dead, timeouts, host_ops, hist >>

\* line 454: slurm_cond_signal(&bb_state.term_cond) wakes a waiting agent
FiniSignal ==
    /\ At("main", "f_signal")
    /\ pc' = [pc EXCEPT !["main"] = "f_unlock_term",
                        !["agent"] = IF @ = "sl_wait" THEN "sl_wake" ELSE @]
    /\ UNCHANGED << now, bb_ahash, ahash_ok, last_update_time, term_flag, bb_thread,
                    bb_mutex, term_mutex, ext_lock, disk, last_save_time, sv, rv,
                    ignore_state_errors, io_faults, dead, timeouts, host_ops, hist >>

\* line 455
FiniUnlockTerm ==
    /\ At("main", "f_unlock_term")
    /\ term_mutex' = "none"
    /\ Goto("main", "f_test")
    /\ UNCHANGED << now, bb_ahash, ahash_ok, last_update_time, term_flag, bb_thread,
                    bb_mutex, ext_lock, disk, last_save_time, sv, rv,
                    ignore_state_errors, io_faults, dead, timeouts, host_ops, hist >>

\* a faulty FiniTestThread: bb_mutex is kept across the join
FiniTestThreadKeepsMutex ==
    /\ At("main", "f_test")
    /\ Goto("main", IF bb_thread THEN "f_join" ELSE "f_clear")
    /\ UNCHANGED << now, bb_ahash, ahash_ok, last_update_time, term_flag, bb_thread,
                    bb_mutex, term_mutex, ext_lock, disk, last_save_time, sv, rv,
                    ignore_state_errors, io_faults, dead, timeouts, host_ops, hist >>

\* lines 457-458: if (bb_state.bb_thread) release bb_mutex before the join
FiniTestThread ==
    /\ At("main", "f_test")
    /\ IF bb_thread
       THEN bb_mutex' = "none" /\ Goto("main", "f_join")
       ELSE UNCHANGED bb_mutex /\ Goto("main", "f_clear")
    /\ UNCHANGED << now, bb_ahash, ahash_ok, last_update_time, term_flag, bb_thread,
                    term_mutex, ext_lock, disk, last_save_time, sv, rv,
                    ignore_state_errors, io_faults, dead, timeouts, host_ops, hist >>

\* a faulty JoinReady: the join does not wait for the agent
JoinReadyAtOnce == TRUE

\* line 459: pthread_join returns once the agent has returned
JoinReady == pc["agent"] = "stopped"

FiniJoin ==
    /\ At("main", "f_join")
    /\ JoinReady
    /\ Goto("main", "f_relock")
    /\ UNCHANGED << now, bb_ahash, ahash_ok, last_update_time, term_flag, bb_thread,
                    bb_mutex, term_mutex, ext_lock, disk, last_save_time, sv, rv,
                    ignore_state_errors, io_faults, dead, timeouts, host_ops, hist >>

\* lines 460-461
FiniRelock ==
    /\ At("main", "f_relock")
    /\ bb_mutex = "none"
    /\ bb_mutex' = "main"
    /\ bb_thread' = FALSE
    /\ Goto("main", "f_clear")
    /\ UNCHANGED << now, bb_ahash, ahash_ok, last_update_time, term_flag,
                    term_mutex, ext_lock, disk, last_save_time, sv, rv,
                    ignore_state_errors, io_faults, dead, timeouts, host_ops, hist >>

\* lines 463-464: bb_clear_config, bb_clear_cache free the table
FiniClear ==
    /\ At("main", "f_clear")
    /\ ahash_ok' = FALSE
    /\ bb_ahash' = EmptyTable
    /\ Goto("main", "f_unlock")
    /\ UNCHANGED << now, last_update_time, term_flag, bb_thread,
                    bb_mutex, term_mutex, ext_lock, disk, last_save_time, sv, rv,
                    ignore_state_errors, io_faults, dead, timeouts, host_ops, hist >>

\* lines 465-467
FiniUnlock ==
    /\ At("main", "f_unlock")
    /\ bb_mutex' = "none"
    /\ Goto("main", "m_done")
    /\ UNCHANGED << now, bb_ahash, ahash_ok, last_update_time, term_flag, bb_thread,
                    term_mutex, ext_lock, disk, last_save_time, sv, rv,
                    ignore_state_errors, io_faults, dead, timeouts, host_ops, hist >>

(***************************************************************************)
(* A host thread that uses the registry: the external lock, then bb_mutex. *)
(***************************************************************************)
HostLockExt ==
    /\ At("host", "h_idle")
    /\ host_ops < MaxHostOps
    /\ ahash_ok
    /\ ext_lock = "none"
    /\ ext_lock' = "host"
    /\ host_ops' = host_ops + 1
    /\ Goto("host", "h_lock_bb")
    /\ UNCHANGED << now, bb_ahash, ahash_ok, last_update_time, term_flag, bb_thread,
                    bb_mutex, term_mutex, disk, last_save_time, sv, rv,
                    ignore_state_errors, io_faults, dead, timeouts, hist >>

HostLockMutex ==
    /\ At("host", "h_lock_bb")
    /\ bb_mutex = "none"
    /\ bb_mutex' = "host"
    /\ Goto("host", "h_access")
    /\ UNCHANGED << now, bb_ahash, ahash_ok, last_update_time, term_flag, bb_thread,
                    term_mutex, ext_lock, disk, last_save_time, sv, rv,
                    ignore_state_errors, io_faults, dead, timeouts, host_ops, hist >>

\* the records the host may put into the registry
HostRecs == {R2}

\* remove the k-th record of bucket b
DelRec(tab, b, k) ==
    [tab EXCEPT ![b] = SubSeq(@, 1, k - 1) \o SubSeq(@, k + 1, Len(@))]

\* insert or update a record, or delete one; nothing once the table is freed
HostAccess ==
    /\ At("host", "h_access")
    /\ \/ \E r \in HostRecs :
            /\ ahash_ok
            /\ bb_ahash' = ApplyRec(bb_ahash, r, now)
            /\ last_update_time' = now
       \/ \E b \in Buckets : \E k \in 1 .. Len(bb_ahash[b]) :
            /\ ahash_ok
            /\ bb_ahash' = DelRec(bb_ahash, b, k)
            /\ last_update_time' = now
       \/ ~ahash_ok /\ UNCHANGED << bb_ahash, last_update_time >>
    /\ Goto("host", "h_unlock_bb")
    /\ UNCHANGED << now, ahash_ok, term_flag, bb_thread,
                    bb_mutex, term_mutex, ext_lock, disk, last_save_time, sv, rv,
                    ignore_state_errors, io_faults, dead, timeouts, host_ops, hist >>

HostUnlockMutex ==
    /\ At("host", "h_unlock_bb")
    /\ bb_mutex' = "none"
    /\ Goto("host", "h_unlock_ext")
    /\ UNCHANGED << now, bb_ahash, ahash_ok, last_update_time, term_flag, bb_thread,
                    term_mutex, ext_lock, disk, last_save_time, sv, rv,
                    ignore_state_errors, io_faults, dead, timeouts, host_ops, hist >>

HostUnlockExt ==
    /\ At("host", "h_unlock_ext")
    /\ ext_lock' = "none"
    /\ Goto("host", "h_idle")
    /\ UNCHANGED << now, bb_ahash, ahash_ok, last_update_time, term_flag, bb_thread,
                    bb_mutex, term_mutex, disk, last_save_time, sv, rv,
                    ignore_state_errors, io_faults, dead, timeouts, host_ops, hist >>

\* the clock advances
Tick ==
    /\ ~dead
    /\ now < MaxTime
    /\ now' = now + 1
    /\ UNCHANGED << bb_ahash, ahash_ok, last_update_time, term_flag, bb_thread,
                    bb_mutex, term_mutex, ext_lock, pc, disk, last_save_time, sv, rv,
                    ignore_state_errors, io_faults, dead, timeouts, host_ops, hist >>

(***************************************************************************)
(* The system.                                                             *)
(***************************************************************************)
AgentStep ==
    \/ AgentLoopTest \/ SleepLock \/ SleepCheck \/ SleepWake \/ SleepUnlock
    \/ AgentTermTest \/ RecoverOpen \/ RecoverRead \/ RecoverHeader
    \/ RecoverUnpack \/ RecoverApply \/ LoadStateTime
    \/ AgentLockExt \/ AgentLockMutex \/ AgentUnlockMutex \/ AgentUnlockExt
    \/ SaveCheck \/ SaveTestAhash \/ SaveLock \/ SavePack \/ SaveUnlock
    \/ SaveCreat \/ SaveWrite \/ SaveFsync \/ SaveBranch
    \/ SaveUnlinkOld \/ SaveLinkOld \/ SaveUnlinkReg \/ SaveLinkReg
    \/ SaveUnlinkNew \/ SaveFree

MainStep ==
    \/ InitLock \/ InitConfig \/ InitCreateThread \/ InitUnlock
    \/ bb_p_load_state
    \/ FiniLock \/ FiniLockTerm \/ FiniSetFlag \/ FiniSignal \/ FiniUnlockTerm
    \/ FiniTestThread \/ FiniJoin \/ FiniRelock \/ FiniClear \/ FiniUnlock

HostStep ==
    \/ HostLockExt \/ HostLockMutex \/ HostAccess \/ HostUnlockMutex
    \/ HostUnlockExt

Next == AgentStep \/ MainStep \/ HostStep \/ SleepTimeout \/ Tick

Spec == Init /\ [][Next]_vars

\* The same system with the clock held at its first value.  Every thread that
\* can take a step eventually takes one; the expiry of the agent's sleep is
\* under no fairness: it need not happen.
LiveNext == AgentStep \/ MainStep \/ HostStep \/ SleepTimeout

LiveSpec ==
    /\ Init /\ [][LiveNext]_vars
    /\ WF_vars(AgentStep) /\ WF_vars(MainStep) /\ WF_vars(HostStep)

(***************************************************************************)
(* The agent on its own: the plugin has been initialised, the host leaves  *)
(* the registry alone and does not shut down.                              *)
(***************************************************************************)
\* the table after the records of recs have been put into it at time t
RECURSIVE TableOf(_, _)
TableOf(recs, t) ==
    IF recs = <<>> THEN EmptyTable
    ELSE ApplyRec(TableOf(Tail(recs), t), Head(recs), t)

\* the state once init() has returned, with a registry the host has filled
Running(tables, files, lenient, faults) ==
    /\ now = 1
    /\ bb_ahash \in tables
    /\ ahash_ok = TRUE
    /\ last_update_time = (IF bb_ahash = EmptyTable THEN 0 ELSE 1)
    /\ term_flag = FALSE
    /\ bb_thread = TRUE
    /\ bb_mutex = "none"
    /\ term_mutex = "none"
    /\ ext_lock = "none"
    /\ pc = [t \in Threads |->
               IF t = "main" THEN "m_idle" ELSE IF t = "agent" THEN "a_test" ELSE "h_idle"]
    /\ \/ disk = EmptyDisk
       \/ \E f \in files :
             disk = [EmptyDisk EXCEPT !.fs["reg"] = 1, !.idata[1] = f]
    /\ last_save_time = 0
    /\ sv = SvIdle
    /\ rv = RvIdle
    /\ ignore_state_errors \in lenient
    /\ io_faults \in faults
    /\ dead = FALSE
    /\ timeouts = 0
    /\ host_ops = 0
    /\ hist = HistInit

\* the process ends (exit, kill, crash or fatal) and is started again: memory
\* is as init() leaves it (lines 431-442), the directory is as it was
Restart ==
    /\ hist.restarts < MaxRestarts
    /\ bb_ahash' = EmptyTable
    /\ last_update_time' = 0
    /\ pc' = [t \in Threads |->
                IF t = "main" THEN "m_idle" ELSE IF t = "agent" THEN "a_test" ELSE "h_idle"]
    /\ last_save_time' = 0
    /\ sv' = SvIdle
    /\ rv' = RvIdle
    /\ dead' = FALSE
    /\ timeouts' = 0
    /\ hist' = [HistInit EXCEPT !.restarts = hist.restarts + 1,
                                !.saved_ok = hist.saved_ok,
                                !.saved_set = hist.saved_set,
                                !.saved_bytes = hist.saved_bytes]
    /\ UNCHANGED << now, ahash_ok, term_flag, bb_thread, bb_mutex, term_mutex,
                    ext_lock, disk, ignore_state_errors, io_faults, host_ops >>

\* name "1", owner 0: the name of R1 under another owner
R3 == Rec(<<49>>, 0, 9, 5, <<112, 113>>)
\* name "3", owner 1: in the bucket of R1
R4 == [account |-> <<97, 99>>, create_time |-> 2, id |-> 10, name |-> <<51>>,
       partition |-> <<112>>, pool |-> NullStr, qos |-> <<113>>,
       user_id |-> 1, size |-> 6]

CodecTables ==
    {TableOf(q, 1) : q \in {<<>>, <<R1>>, <<R4>>, <<R1, R2>>, <<R3, R1>>,
                            <<R1, R4>>, <<R2, R3, R4>>}}

TwoRecFile == Payload(SLURM_PROTOCOL_VERSION, 2, <<R2, R4>>)

\* name "1a", owner 1: digits followed by a letter
R5 == Rec(<<49, 97>>, 1, 11, 2, NullStr)

DigitPrefixFile == Payload(SLURM_PROTOCOL_VERSION, 1, <<R5>>)

CodecFiles ==
    {ValidFile, TwoRecFile, DigitPrefixFile,
     SentinelFile, pack16(NO_VAL16), Payload(NO_VAL16, 0, <<>>),
     OldVersionFile, Payload(SLURM_20_11_PROTOCOL_VERSION, 0, <<>>),
     TruncatedFile, SubSeq(TwoRecFile, 1, Len(TwoRecFile) - 3)}

\* file operations may fail or fall short
InitIO == Running({EmptyTable, TableOf(<<R2>>, 1)}, {ValidFile}, BOOLEAN, {TRUE})

NextIO == AgentStep \/ SleepTimeout \/ Tick

SpecIO == InitIO /\ [][NextIO]_vars

\* file operations work; registries and checkpoint files of many shapes; the
\* process may be restarted
InitCodec == Running(CodecTables, CodecFiles, BOOLEAN, {FALSE})

NextCodec == AgentStep \/ SleepTimeout \/ Tick \/ Restart

SpecCodec == InitCodec /\ [][NextCodec]_vars

\* the same registries and files in one run of the process with the clock
\* held at its first value
NextLoad == AgentStep \/ SleepTimeout

SpecLoad == InitCodec /\ [][NextLoad]_vars

(***************************************************************************)
(* Locks: who waits for what.                                              *)
(***************************************************************************)
\* the lock thread t is about to take at its position, "none" if none
Wants(t) ==
    IF t = "agent" THEN
        IF pc[t] \in {"sl_lock", "sl_wake"} THEN "term"
        ELSE IF pc[t] = "a_lock_ext" THEN "ext"
        ELSE IF pc[t] \in {"a_lock_bb", "s_lock"} THEN "bb"
        ELSE "none"
    ELSE IF t = "main" THEN
        IF pc[t] \in {"i_lock", "m_idle", "f_relock"} THEN "bb"
        ELSE IF pc[t] = "f_lock_term" THEN "term"
        ELSE "none"
    ELSE
        IF pc[t] = "h_idle" /\ host_ops < MaxHostOps /\ ahash_ok THEN "ext"
        ELSE IF pc[t] = "h_lock_bb" THEN "bb"
        ELSE "none"

Owner(l) == IF l = "bb" THEN bb_mutex ELSE IF l = "term" THEN term_mutex
            ELSE IF l = "ext" THEN ext_lock ELSE "none"

Blocked(t) == Wants(t) # "none" /\ Owner(Wants(t)) \notin {"none", t}

CanStep(t) ==
    IF t = "agent" THEN ENABLED AgentStep
    ELSE IF t = "main" THEN ENABLED MainStep
    ELSE ENABLED HostStep

\* t is not waiting for a lock and its next step can be taken
Runnable(t) == t \in Threads /\ ~Blocked(t) /\ CanStep(t)

\* the chain of lock holders that starts at a waiting thread ends in a thread
\* that can run
WaitEnds(t) ==
    LET o1 == Owner(Wants(t))
    IN \/ Runnable(o1)
       \/ /\ o1 \in Threads /\ Blocked(o1)
          /\ LET o2 == Owner(Wants(o1))
             IN o2 # t /\ Runnable(o2)

\* the positions at which a thread reads or writes the table
TableAccess(t) ==
    IF t = "agent" THEN pc[t] \in {"r_apply", "s_pack", "a_timeout"}
    ELSE IF t = "main" THEN pc[t] \in {"i_config", "f_clear"}
    ELSE pc[t] = "h_access"

\* the positions of _save_bb_state from creat() to the end of the file shuffle
SaveFilePcs == {"s_write", "s_fsync", "s_branch", "s_unlink_old", "s_link_old",
                "s_unlink_reg", "s_link_reg", "s_unlink_new", "s_free"}

\* the positions of _save_bb_state at which its next step is a file operation
FileOpPcs == {"s_creat", "s_write", "s_fsync", "s_branch", "s_unlink_old",
              "s_link_old", "s_unlink_reg", "s_link_reg", "s_unlink_new"}

(***************************************************************************)
(* Claims.                                                                 *)
(***************************************************************************)
\* C1: if the canonical file exists when _save_bb_state starts, then at every
\* step from creat() to the end of the rotation the canonical name exists and
\* holds either the previous checkpoint or the new one, whole.
C1_CanonicalPreviousOrNew ==
    (~dead /\ pc["agent"] \in SaveFilePcs /\ hist.reg0_ex)
        => /\ Exists(disk, "reg")
           /\ Content(disk, "reg") \in {hist.reg0, sv.buffer}

\* C2: when _save_bb_state has come to its end after creat(), a write() or
\* fsync_and_close() failed, the temp file is gone, the canonical file and the
\* .old file are what they were when it started, and last_save_time is what
\* it was.
C2_FailedWriteLeavesAllUntouched ==
    (pc["agent"] = "s_free" /\ hist.io_failed)
        => /\ ~Exists(disk, "new")
           /\ Exists(disk, "reg") = hist.reg0_ex
           /\ Content(disk, "reg") = hist.reg0
           /\ Exists(disk, "old") = hist.old0_ex
           /\ Content(disk, "old") = hist.old0
           /\ last_save_time = hist.lst0

\* C3: every thread that is at a table access holds bb_mutex.
C3_TableAccessUnderMutex ==
    \A t \in Threads : (~dead /\ TableAccess(t)) => bb_mutex = t

\* C4: no thread asks for the external lock while it holds bb_mutex, the agent
\* holds the external lock for as long as it holds bb_mutex in its
\* housekeeping and gives up bb_mutex first, and every thread that waits for a
\* lock waits for a chain of holders that ends in a thread that can run.
C4_LockOrderNoDeadlock ==
    ~dead =>
       /\ \A t \in Threads : Wants(t) = "ext" => bb_mutex # t
       /\ pc["agent"] = "a_timeout" => (bb_mutex = "agent" /\ ext_lock = "agent")
       /\ pc["agent"] = "a_unlock_ext" => (bb_mutex # "agent" /\ ext_lock = "agent")
       /\ \A t \in Threads : Blocked(t) => WaitEnds(t)

\* C4 witness: fini holds bb_mutex, the host holds the external lock and waits
\* for bb_mutex, the agent waits for the external lock.
C4_Witness ==
    /\ ~dead
    /\ pc["main"] = "f_set"
    /\ pc["host"] = "h_lock_bb" /\ Blocked("host")
    /\ pc["agent"] = "a_lock_ext" /\ Blocked("agent")

\* a call of _recover_bb_state has returned and _load_state has not gone on yet
Loaded == ~dead /\ pc["agent"] = "ld_time"

\* the bytes just decoded are those of the last successful _save_bb_state, and
\* the registry was empty when decoding began
DecodedOwnSave ==
    /\ Loaded
    /\ hist.saved_ok
    /\ hist.data0 = hist.saved_bytes
    /\ hist.tab0 = EmptyTable

\* C5: decoding what _save_bb_state wrote into an empty registry gives the set
\* of records that was encoded, equal in all nine persistent fields and with
\* no record twice, and the count in the header is the size of that set.
C5_RoundTrip ==
    DecodedOwnSave
        => /\ TableSet(bb_ahash) = hist.saved_set
           /\ Len(TableRecs(bb_ahash, 0)) = Cardinality(hist.saved_set)
           /\ hist.cnt = Cardinality(hist.saved_set)

\* C5 witness: after a restart, a checkpoint of three records, two of them
\* under one name, has been decoded.
C5_Witness ==
    /\ DecodedOwnSave
    /\ hist.restarts >= 1
    /\ Cardinality(hist.saved_set) >= 3
    /\ \E a, b \in hist.saved_set : a.name = b.name /\ a.user_id # b.user_id

\* C6: a checkpoint whose version is below SLURM_21_08_PROTOCOL_VERSION, is
\* not the sentinel, and whose record count is above zero leaves the registry
\* as it was.
C6_OldVersionRejected ==
    (/\ Loaded
     /\ hist.ver >= 0 /\ hist.ver < SLURM_21_08_PROTOCOL_VERSION
     /\ hist.ver # NO_VAL16
     /\ hist.cnt > 0)
        => bb_ahash = hist.tab0

\* C7: a checkpoint whose version is NO_VAL16 ends the process when
\* ignore_state_errors is off, and otherwise _recover_bb_state returns with
\* the registry as it was, whatever bytes follow the version.
C7_SentinelIncompatible ==
    hist.ver = NO_VAL16
        => IF ignore_state_errors
           THEN pc["agent"] = "ld_time" /\ ~dead /\ bb_ahash = hist.tab0
           ELSE dead

\* C7 witness: with ignore_state_errors on, a sentinel checkpoint with a
\* record after its header has been read over a registry that held records.
C7_Witness ==
    /\ hist.ver = NO_VAL16
    /\ ignore_state_errors
    /\ Loaded
    /\ Len(hist.data0) > 6
    /\ hist.tab0 # EmptyTable

\* every byte of the name is a decimal digit
PurelyNumeric(s) == s # <<>> /\ \A k \in 1 .. Len(s) : IsDigit(s[k])

\* the number a string of decimal digits stands for
RECURSIVE DecimalValue(_)
DecimalValue(s) ==
    IF s = <<>> THEN 0
    ELSE DecimalValue(SubSeq(s, 1, Len(s) - 1)) * 10 + (s[Len(s)] - 48)

\* C11: a record decoded from a checkpoint of a supported version gets
\* seen_time = the time of the load; it gets job_id = array_job_id = the value
\* of its name and array_task_id = NO_VAL when the name is purely numeric, and
\* keeps its job id fields as they were when the name is anything else.
C11_DerivedJobIds ==
    [][(/\ pc["agent"] = "r_apply" /\ pc'["agent"] = "r_loop"
        /\ rv.version >= SLURM_21_08_PROTOCOL_VERSION)
       => LET got == bb_alloc_name_rec(bb_ahash, rv.lv.name, rv.lv.user_id, now)
              old == got.tab[got.b][got.k]
              new == bb_ahash'[got.b][got.k]
          IN /\ new.seen_time = now
             /\ IF PurelyNumeric(rv.lv.name)
                THEN /\ new.job_id = DecimalValue(rv.lv.name)
                     /\ new.array_job_id = DecimalValue(rv.lv.name)
                     /\ new.array_task_id = NO_VAL
                ELSE /\ new.job_id = old.job_id
                     /\ new.array_job_id = old.array_job_id
                     /\ new.array_task_id = old.array_task_id]_vars

\* C12: when there is no canonical file, _recover_bb_state reads nothing, does
\* not end the process, and returns with the table, every record and every
\* field of it, as it was.
C12_AbsentFileNoOp ==
    ~Exists(disk, "reg")
        => /\ pc["agent"] \notin {"r_read", "r_header", "r_loop", "r_apply"}
           /\ ~dead
           /\ pc["agent"] = "ld_time" => bb_ahash = hist.tab0

\* C12 witness: _recover_bb_state has returned over a registry with records
\* and there is no canonical file.
C12_Witness ==
    /\ Loaded
    /\ ~Exists(disk, "reg")
    /\ hist.loads >= 1
    /\ bb_ahash # EmptyTable

\* the records file n of the directory decodes to (none when it is absent)
DecodedSet(d, n) ==
    IF ~Exists(d, n) THEN {}
    ELSE TableSet(RecoverResult(EmptyTable, Content(d, n)).tab)

\* C13: _save_bb_state returns at once, with the directory and last_save_time
\* untouched, when last_update_time <= last_save_time and term_flag is unset,
\* and goes on to write otherwise; and when a call that ends without error
\* follows one that ended without error and packs the same records, the
\* canonical file decodes to those records after it.
C13_SkipAndIdempotent ==
    /\ [][(/\ pc["agent"] = "s_check" /\ pc'["agent"] # "s_check"
            /\ hist'.restarts = hist.restarts)
           => IF last_update_time <= last_save_time /\ ~term_flag
              THEN /\ pc'["agent"] = "a_test"
                   /\ disk' = disk
                   /\ last_save_time' = last_save_time
              ELSE pc'["agent"] = "s_ahash"]_vars
    /\ []((/\ pc["agent"] = "s_free" /\ sv.error_code = 0
           /\ hist.prev_ok /\ hist.prev_set = hist.saved_set)
          => DecodedSet(disk, "reg") = hist.prev_set)

\* C13 witness: a second write of the same two or more records has ended, in
\* the process that wrote them first.
C13_Witness ==
    /\ pc["agent"] = "s_free" /\ sv.error_code = 0
    /\ hist.prev_ok /\ hist.prev_set = hist.saved_set
    /\ Cardinality(hist.prev_set) >= 2
    /\ timeouts = 2

\* C14: whenever the agent's next step is a file operation of _save_bb_state
\* it holds neither the external lock nor bb_mutex, so a host thread that
\* waits for bb_mutex then does not wait for the agent; inside _save_bb_state
\* the agent holds bb_mutex only while it packs the records.
C14_NoLockDuringFileOps ==
    /\ pc["agent"] \in FileOpPcs
          => /\ bb_mutex # "agent"
             /\ ext_lock # "agent"
             /\ (pc["host"] = "h_lock_bb" /\ Blocked("host")) => Owner("bb") # "agent"
    /\ bb_mutex = "agent"
          => pc["agent"] \notin FileOpPcs \cup {"s_check", "s_ahash", "s_lock", "s_free"}

\* C14 witness: the host changes the registry under bb_mutex while the agent
\* is in the middle of writing the temp file.
C14_Witness ==
    /\ pc["agent"] = "s_write"
    /\ pc["host"] = "h_access" /\ bb_mutex = "host" /\ ext_lock = "host"
    /\ ~dead

\* the checkpoint being decoded has a supported version and a short read in
\* one of the records its header counts
Truncated ==
    /\ hist.ver >= SLURM_21_08_PROTOCOL_VERSION /\ hist.ver # NO_VAL16
    /\ hist.cnt > 0
    /\ RecoverResult(EmptyTable, hist.data0).good < hist.cnt

\* C15: when record k of a checkpoint of a supported version is cut short,
\* records k and later are never applied; with ignore_state_errors off the
\* process ends at record k and _recover_bb_state never returns; with it on
\* the process is not ended and _recover_bb_state returns with records
\* 1 .. k-1 applied to the registry.
C15_TruncatedNoRollback ==
    /\ [](Truncated =>
            LET res == RecoverResult(hist.tab0, hist.data0)
            IN /\ pc["agent"] \in {"r_loop", "r_apply", "ld_time"}
               /\ rv.i <= res.good
               /\ pc["agent"] = "r_apply" => rv.i < res.good
               /\ IF ignore_state_errors
                  THEN /\ ~dead
                       /\ pc["agent"] = "ld_time"
                             => TableSet(bb_ahash) = TableSet(res.tab)
                  ELSE /\ pc["agent"] # "ld_time"
                       /\ dead => /\ pc["agent"] = "r_loop" /\ rv.i = res.good
                                   /\ TableSet(bb_ahash) = TableSet(res.tab))
    /\ [][(/\ Truncated /\ ~ignore_state_errors /\ ~dead
            /\ pc["agent"] = "r_loop"
            /\ rv.i = RecoverResult(hist.tab0, hist.data0).good
            /\ now' = now /\ hist'.restarts = hist.restarts)
           => dead']_vars

\* C15 witness: with ignore_state_errors on, _recover_bb_state has returned
\* from a checkpoint of two records whose second record is cut short, the
\* first record applied.
C15_Witness ==
    /\ Loaded /\ Truncated /\ ignore_state_errors
    /\ hist.cnt = 2
    /\ RecoverResult(hist.tab0, hist.data0).good = 1
    /\ bb_ahash # hist.tab0

\* C16: when the write loop of _save_bb_state has ended with no write() having
\* failed other than by EINTR, the temp file holds the bytes of the buffer,
\* all of them, once, in order.
C16_TempFileIsBuffer ==
    (pc["agent"] = "s_fsync" /\ ~hist.io_failed)
        => Content(disk, "new") = sv.buffer

\* no two records of the table have the same (name, user_id)
NoDupKeys(tab) ==
    LET recs == TableRecs(tab, 0)
    IN \A i, j \in 1 .. Len(recs) :
          (recs[i].name = recs[j].name /\ recs[i].user_id = recs[j].user_id) => i = j

\* the records of the table, seen_time aside
Untimed(tab) == {[r EXCEPT !.seen_time = 0] : r \in SeqToSet(TableRecs(tab, 0))}

\* the checkpoint just decoded has a supported version and all its records
WholeFile ==
    /\ hist.ver >= SLURM_21_08_PROTOCOL_VERSION /\ hist.ver # NO_VAL16
    /\ hist.cnt >= 0
    /\ RecoverResult(EmptyTable, hist.data0).good = hist.cnt

\* C17: the registry never holds two records with one (name, user_id); once
\* a checkpoint has been loaded, loading it again changes neither the set of
\* records nor their number; and a cycle that reloads the checkpoint the
\* agent wrote from this registry leaves the records as they were.
C17_OneRecordPerKey ==
    /\ NoDupKeys(bb_ahash)
    /\ (Loaded /\ WholeFile)
          => LET again == RecoverResult(bb_ahash, hist.data0).tab
             IN /\ Untimed(again) = Untimed(bb_ahash)
                /\ Len(TableRecs(again, 0)) = Len(TableRecs(bb_ahash, 0))
    /\ (/\ Loaded /\ hist.saved_ok /\ hist.data0 = hist.saved_bytes
         /\ TableSet(hist.tab0) = hist.saved_set)
          => /\ Untimed(bb_ahash) = Untimed(hist.tab0)
             /\ Len(TableRecs(bb_ahash, 0)) = Len(TableRecs(hist.tab0, 0))

\* C17 witness: in its second cycle the agent has reloaded the checkpoint of
\* two or more records that it loaded and wrote in its first.
C17_Witness ==
    /\ Loaded /\ WholeFile
    /\ hist.saved_ok /\ hist.data0 = hist.saved_bytes
    /\ TableSet(hist.tab0) = hist.saved_set
    /\ hist.restarts = 0 /\ hist.loads = 2
    /\ Cardinality(hist.saved_set) >= 2

\* C18: an agent that finds term_flag set at the test after its sleep goes
\* straight to _save_bb_state, with no load and no housekeeping; a
\* _save_bb_state that finds term_flag set is not skipped, whatever the two
\* times are; an agent that finds term_flag set at the top of its loop returns;
\* and term_flag, once set, stays set.
C18_TerminatingCycle ==
    [][/\ (pc["agent"] = "a_test2" /\ term_flag /\ pc'["agent"] # "a_test2")
            => pc'["agent"] = "s_check"
       /\ (pc["agent"] = "s_check" /\ term_flag /\ pc'["agent"] # "s_check")
            => pc'["agent"] = "s_ahash"
       /\ (pc["agent"] = "a_test" /\ term_flag /\ pc'["agent"] # "a_test")
            => pc'["agent"] = "stopped"
       /\ term_flag => term_flag']_vars

\* C18 witness: woken from its second sleep by fini, the agent has not
\* reloaded and is writing although last_update_time has not passed
\* last_save_time.
C18_Witness ==
    /\ term_flag /\ ~dead
    /\ pc["agent"] = "s_ahash"
    /\ hist.loads = 1 /\ timeouts = 1
    /\ last_save_time >= 1 /\ last_update_time <= last_save_time

\* C19: when the agent comes to _save_bb_state with term_flag unset, after a
\* write of this process that ended without error, and the registry holds the
\* records that write packed, it writes nothing: the call is skipped.
C19_IdleCycleSkipsWrite ==
    [][(/\ pc["agent"] = "s_check" /\ pc'["agent"] # "s_check"
        /\ hist'.restarts = hist.restarts
        /\ ~term_flag
        /\ hist.saved_ok /\ last_save_time >= 1
        /\ TableSet(bb_ahash) = hist.saved_set)
       => pc'["agent"] = "a_test" /\ disk' = disk]_vars

\* C20: when pthread_join in fini has returned, the canonical file decodes to
\* the records the registry held when fini set term_flag.
C20_NoUpdateLostAtShutdown ==
    (pc["main"] = "f_relock" /\ ~dead)
        => DecodedSet(disk, "reg") = hist.term_set

\* the positions of _save_bb_state from the first step of the file shuffle to
\* the state after its last
RotationPcs == {"s_unlink_old", "s_link_old", "s_unlink_reg", "s_link_reg",
                "s_unlink_new", "s_free"}

\* creat(), every write() and fsync_and_close() succeeded, none interrupted
TempWrittenWell == sv.error_code = 0 /\ ~hist.io_failed /\ sv.eintr = 0

\* the name exists and holds the checkpoint this call found under the
\* canonical name, or the one it packed
CompleteCopy(n) ==
    Exists(disk, n) /\ Content(disk, n) \in {hist.reg0, sv.buffer}

\* C21: when the temp file was written and synced with no failure and the
\* canonical file existed when _save_bb_state started, then at every step of
\* the file shuffle, and after its last, one of the canonical, .old and .new
\* names holds the previous checkpoint or the new one, whole.
C21_RotationKeepsACopy ==
    (pc["agent"] \in RotationPcs /\ TempWrittenWell /\ hist.reg0_ex)
        => \E n \in {"reg", "old", "new"} : CompleteCopy(n)

\* C8: once the agent has taken a step, a call of _recover_bb_state has
\* completed.
C8_LoadBeforeAgent ==
    pc["agent"] \notin {"unborn", "a_test"} => hist.loads >= 1

\* C9: fini clears the shared state only once the agent has returned, and does
\* not hold bb_mutex while it waits in pthread_join.
C9_ClearAfterJoin ==
    /\ pc["main"] \in {"f_clear", "f_unlock", "m_done"} => pc["agent"] = "stopped"
    /\ pc["main"] = "f_join" => bb_mutex # "main"

\* C9 witness: fini has returned after an agent that loaded and saved.
C9_Witness ==
    pc["main"] = "m_done" /\ ~ahash_ok /\ hist.loads >= 1 /\ hist.saved_ok

\* fini has set term_flag and signalled term_cond
Signalled == term_flag /\ pc["main"] # "f_signal"

ShutDown == pc["agent"] = "stopped" /\ pc["main"] = "m_done"

====
